---- MODULE Spec2Model ----
(***************************************************************************)
(* Model of cmd/manager/main.go of the operator: the startup sequence of   *)
(* one operator process (main), the custom-resource metrics step           *)
(* (serveCRMetrics) and the GVK filter (filterGKVsFromAddToScheme).        *)
(*                                                                         *)
(* Strings that the code inspects character by character (the watch        *)
(* namespace) are sequences of one-character strings; other strings are    *)
(* TLA+ strings.                                                           *)
(***************************************************************************)
EXTENDS Naturals, Sequences, FiniteSets

(***************************************************************************)
(* Bounds of the model.                                                    *)
(***************************************************************************)
\* Longest descriptor list handed to the filter.
MaxGVKs == 2
\* Longest watch-spec registry.
MaxSpecs == 2
\* Longest watch-namespace string.
MaxNsLen == 4
\* Calls of the filter on the same input.
MaxCalls == 2
\* Number of replica processes running main against the same lock.
NumProcs == 2

VARIABLES
  \* ---- the GVK filter called on its own ----
  gvks,              \* the descriptor list handed to filterGKVsFromAddToScheme
  ownGVKs,           \* what the last call of the filter returned
  filterCalls,       \* how many times the filter has been called
  \* ---- the environment of the processes ----
  WatchedResources,  \* kfdefcontroller.WatchedResources, the watch-spec registry
  schemeGVKs,        \* the GVKs apis.AddToScheme registers
  envWatchNamespace, \* the WATCH_NAMESPACE variable: [set, value]
  lock,              \* the processes holding the lock "kfctl-lock"
  \* ---- one entry per process ----
  procs,             \* the processes that run main
  pc,                \* where each process is in main
  watchNamespace,    \* main's local watchNamespace
  mgrOptions,        \* the options handed to manager.New
  mgr,               \* the manager: constructed, scheme, controllers, started
  crMetrics,         \* the custom-resource metrics listener
  service,           \* main's local service: "nil" or "service"
  exitCode,          \* {} while the process runs, {code} once it has exited
  log,               \* the log lines written, in order
  trace              \* the calls made and what each returned, in order

filterVars == <<gvks, ownGVKs, filterCalls>>
envVars == <<WatchedResources, schemeGVKs, envWatchNamespace>>
procVars == <<procs, pc, watchNamespace, mgrOptions, mgr, crMetrics, service,
              exitCode, log, trace, lock>>
vars == <<gvks, ownGVKs, filterCalls, WatchedResources, schemeGVKs,
          envWatchNamespace, lock, procs, pc, watchNamespace, mgrOptions, mgr,
          crMetrics, service, exitCode, log, trace>>

(***************************************************************************)
(* Sequences of length at most n over S.                                   *)
(***************************************************************************)
SeqsUpTo(S, n) == UNION {[1..k -> S] : k \in 0..n}

(***************************************************************************)
(* filterGKVsFromAddToScheme                                               *)
(***************************************************************************)
matchAnyValue == "*"

GVK(g, v, k) == [Group |-> g, Version |-> v, Kind |-> k]

\* Variant of SpecMatches: the all-wildcard spec is not set apart.
SpecMatchesNoWildcardGuard(watchedGVK, gvk) ==
  /\ ~(watchedGVK.Kind # matchAnyValue /\ watchedGVK.Kind # gvk.Kind)
  /\ ~(watchedGVK.Group # matchAnyValue /\ watchedGVK.Group # gvk.Group)
  /\ ~(watchedGVK.Version # matchAnyValue /\ watchedGVK.Version # gvk.Version)

\* Variant of SpecMatches: the Version fields are not compared.
SpecMatchesNoVersion(watchedGVK, gvk) ==
  IF /\ watchedGVK.Kind = matchAnyValue
     /\ watchedGVK.Group = matchAnyValue
     /\ watchedGVK.Version = matchAnyValue
  THEN FALSE
  ELSE /\ ~(watchedGVK.Kind # matchAnyValue /\ watchedGVK.Kind # gvk.Kind)
       /\ ~(watchedGVK.Group # matchAnyValue /\ watchedGVK.Group # gvk.Group)

\* Lines 207-220: the value of `match` when `if match` is reached.
SpecMatches(watchedGVK, gvk) ==
  IF /\ watchedGVK.Kind = matchAnyValue
     /\ watchedGVK.Group = matchAnyValue
     /\ watchedGVK.Version = matchAnyValue
  THEN FALSE
  ELSE /\ ~(watchedGVK.Kind # matchAnyValue /\ watchedGVK.Kind # gvk.Kind)
       /\ ~(watchedGVK.Group # matchAnyValue /\ watchedGVK.Group # gvk.Group)
       /\ ~(watchedGVK.Version # matchAnyValue /\ watchedGVK.Version # gvk.Version)

\* Variant of InnerLoop: the loop is left at the first matching spec.
RECURSIVE InnerLoopFirstMatchOnly(_, _, _, _)
InnerLoopFirstMatchOnly(gvk, watched, j, own) ==
  IF j > Len(watched) THEN own
  ELSE IF SpecMatches(watched[j], gvk) THEN Append(own, gvk)
  ELSE InnerLoopFirstMatchOnly(gvk, watched, j + 1, own)

\* The inner loop from spec j on: one append of gvk per matching spec.
RECURSIVE InnerLoop(_, _, _, _)
InnerLoop(gvk, watched, j, own) ==
  IF j > Len(watched) THEN own
  ELSE InnerLoop(gvk, watched, j + 1,
                 IF SpecMatches(watched[j], gvk) THEN Append(own, gvk) ELSE own)

\* The outer loop from descriptor i on.
RECURSIVE OuterLoop(_, _, _, _)
OuterLoop(list, watched, i, own) ==
  IF i > Len(list) THEN own
  ELSE OuterLoop(list, watched, i + 1, InnerLoop(list[i], watched, 1, own))

\* Variant of filterGKVsFromAddToScheme: an empty registry filters nothing.
filterGKVsUnfilteredWhenEmpty(list) ==
  IF WatchedResources = <<>> THEN list
  ELSE OuterLoop(list, WatchedResources, 1, <<>>)

\* Lines 201-227: ownGVKs starts empty and is returned after the loops.
filterGKVsFromAddToScheme(list) == OuterLoop(list, WatchedResources, 1, <<>>)

(***************************************************************************)
(* The inputs the filter is explored on: every descriptor over two groups, *)
(* two versions and two kinds, and every wildcard pattern of one           *)
(* descriptor, so that each field of a spec is met both by an equal and by *)
(* a different descriptor field.                                           *)
(***************************************************************************)
Descriptors ==
  {GVK(g, v, k) : g \in {"a", "b"}, v \in {"v1", "v2"}, k \in {"Foo", "Baz"}}

WatchSpecs ==
  {GVK(g, v, k) : g \in {"a", matchAnyValue}, v \in {"v1", matchAnyValue},
                  k \in {"Foo", matchAnyValue}}

(***************************************************************************)
(* strings.Contains, strings.Split, and the manager options of main.       *)
(***************************************************************************)
Comma == ","

\* strings.Contains(s, c) for a one-character c.
Contains(s, c) == \E i \in 1..Len(s) : s[i] = c

\* strings.Index(s, c): the first position of c in s, 0 if there is none.
Index(s, c) ==
  IF Contains(s, c)
  THEN CHOOSE i \in 1..Len(s) : s[i] = c /\ \A j \in 1..(i - 1) : s[j] # c
  ELSE 0

\* strings.Split(s, c): the pieces of s between the occurrences of c.
RECURSIVE Split(_, _)
Split(s, c) ==
  LET m == Index(s, c) IN
    IF m = 0 THEN <<s>>
    ELSE <<SubSeq(s, 1, m - 1)>> \o Split(SubSeq(s, m + 1, Len(s)), c)

\* options.NewCache: nil, or cache.MultiNamespacedCacheBuilder(namespaces).
NilCache == [multi |-> FALSE, namespaces |-> <<>>]
MultiNamespacedCacheBuilder(namespaces) == [multi |-> TRUE, namespaces |-> namespaces]

\* Variant of ManagerOptions: options.Namespace is not cleared.
ManagerOptionsKeepNamespace(ns) ==
  LET options == [Namespace |-> ns,
                  MapperProvider |-> "NewDynamicRESTMapper",
                  MetricsBindAddress |-> "0.0.0.0:8383",
                  NewCache |-> NilCache] IN
    IF Contains(ns, Comma)
    THEN [options EXCEPT !.NewCache = MultiNamespacedCacheBuilder(Split(ns, Comma))]
    ELSE options

\* The options main hands to manager.New, lines 91-103.
ManagerOptions(ns) ==
  LET options == [Namespace |-> ns,
                  MapperProvider |-> "NewDynamicRESTMapper",
                  MetricsBindAddress |-> "0.0.0.0:8383",
                  NewCache |-> NilCache] IN
    IF Contains(ns, Comma)
    THEN [options EXCEPT !.Namespace = <<>>,
                         !.NewCache = MultiNamespacedCacheBuilder(Split(ns, Comma))]
    ELSE options

\* k8sutil.GetWatchNamespace(): the variable's value, or "" and an error.
GetWatchNamespace ==
  IF envWatchNamespace.set
  THEN [ns |-> envWatchNamespace.value, err |-> "nil"]
  ELSE [ns |-> <<>>, err |-> "error"]

(***************************************************************************)
(* The processes.                                                          *)
(***************************************************************************)
Procs == 1..NumProcs

NoManager == [constructed |-> FALSE, scheme |-> FALSE, controllers |-> FALSE,
              started |-> FALSE]
NoListener == [started |-> FALSE, gvks |-> <<>>, ns |-> <<>>]
NoOptions == [Namespace |-> <<>>, MapperProvider |-> "", MetricsBindAddress |-> "",
              NewCache |-> NilCache]

Line(level, msg) == [level |-> level, msg |-> msg]
Call(name, err) == [call |-> name, err |-> err]

\* What one step of process p does to its log, its trace and its position.
Logs(p, lines) == log' = [log EXCEPT ![p] = @ \o lines]
Calls(p, calls) == trace' = [trace EXCEPT ![p] = @ \o calls]
Goto(p, label) ==
  /\ pc' = [pc EXCEPT ![p] = label]
  /\ UNCHANGED exitCode

\* The lock "kfctl-lock": free, taken by p when leader.Become returns nil,
\* and given up when the process that holds it is gone.
LockFree == lock = {}
Acquire(p) == lock' = lock \cup {p}
Release(p) == lock' = lock \ {p}

\* os.Exit(code), and main returning (code 0): the process is gone.
osExit(p, code) ==
  /\ pc' = [pc EXCEPT ![p] = "exited"]
  /\ exitCode' = [exitCode EXCEPT ![p] = {code}]
  /\ Release(p)

\* printVersion
VersionLines ==
  <<Line("info", "Go Version"), Line("info", "Go OS/Arch"),
    Line("info", "Version of operator-sdk"), Line("info", "Kubeflow version")>>

InitProcs(running) ==
  /\ procs = running
  /\ lock = {}
  /\ pc = [p \in Procs |-> "main"]
  /\ watchNamespace = [p \in Procs |-> <<>>]
  /\ mgrOptions = [p \in Procs |-> NoOptions]
  /\ mgr = [p \in Procs |-> NoManager]
  /\ crMetrics = [p \in Procs |-> NoListener]
  /\ service = [p \in Procs |-> "nil"]
  /\ exitCode = [p \in Procs |-> {}]
  /\ log = [p \in Procs |-> <<>>]
  /\ trace = [p \in Procs |-> <<>>]

InitFilterIdle ==
  /\ gvks = <<>>
  /\ ownGVKs = <<>>
  /\ filterCalls = 0

\* What no step of main changes.
Frame == UNCHANGED <<gvks, ownGVKs, filterCalls, WatchedResources, schemeGVKs,
                     envWatchNamespace, procs>>

\* Variant of ReadWatchNamespace: the failure is logged as an error and ends
\* the process.
ReadWatchNamespaceFatal(p) ==
  /\ p \in procs
  /\ pc[p] = "main"
  /\ LET r == GetWatchNamespace IN
       /\ watchNamespace' = [watchNamespace EXCEPT ![p] = r.ns]
       /\ Calls(p, <<Call("k8sutil.GetWatchNamespace", r.err)>>)
       /\ IF r.err # "nil"
          THEN /\ Logs(p, VersionLines \o
                          <<Line("error", "Failed to get watch watchNamespace")>>)
               /\ osExit(p, 1)
          ELSE /\ Logs(p, VersionLines)
               /\ Goto(p, "getConfig")
               /\ UNCHANGED lock
  /\ UNCHANGED <<mgrOptions, mgr, crMetrics, service>>
  /\ Frame

\* main, lines 56-74: the flags, printVersion, and the watch namespace.
ReadWatchNamespace(p) ==
  /\ p \in procs
  /\ pc[p] = "main"
  /\ LET r == GetWatchNamespace IN
       /\ watchNamespace' = [watchNamespace EXCEPT ![p] = r.ns]
       /\ Calls(p, <<Call("k8sutil.GetWatchNamespace", r.err)>>)
       /\ Logs(p, VersionLines \o
                  (IF r.err # "nil"
                   THEN <<Line("warning", "Failed to get watch watchNamespace")>>
                   ELSE <<>>))
  /\ Goto(p, "getConfig")
  /\ UNCHANGED <<lock, mgrOptions, mgr, crMetrics, service>>
  /\ Frame

\* main, lines 76-81: config.GetConfig.
GetConfig(p) ==
  /\ p \in procs
  /\ pc[p] = "getConfig"
  /\ \E err \in {"nil", "error"} :
       /\ Calls(p, <<Call("config.GetConfig", err)>>)
       /\ IF err # "nil"
          THEN /\ Logs(p, <<Line("error", "Error")>>)
               /\ osExit(p, 1)
          ELSE /\ Logs(p, <<>>)
               /\ Goto(p, "become")
               /\ UNCHANGED lock
  /\ UNCHANGED <<watchNamespace, mgrOptions, mgr, crMetrics, service>>
  /\ Frame

\* Variant of BecomeLeader: a failed leader.Become is logged and tried again.
BecomeLeaderRetry(p) ==
  /\ p \in procs
  /\ pc[p] = "become"
  /\ Len(trace[p]) < 6
  /\ \/ /\ LockFree
        /\ Acquire(p)
        /\ Calls(p, <<Call("leader.Become", "nil")>>)
        /\ Logs(p, <<>>)
        /\ Goto(p, "newManager")
     \/ /\ Calls(p, <<Call("leader.Become", "error")>>)
        /\ Logs(p, <<Line("error", "Error")>>)
        /\ Goto(p, "become")
        /\ UNCHANGED lock
  /\ UNCHANGED <<watchNamespace, mgrOptions, mgr, crMetrics, service>>
  /\ Frame

\* Variant of BecomeLeader: the error of leader.Become is logged and main
\* goes on.
BecomeLeaderIgnoreError(p) ==
  /\ p \in procs
  /\ pc[p] = "become"
  /\ \/ /\ LockFree
        /\ Acquire(p)
        /\ Calls(p, <<Call("leader.Become", "nil")>>)
        /\ Logs(p, <<>>)
        /\ Goto(p, "newManager")
     \/ /\ Calls(p, <<Call("leader.Become", "error")>>)
        /\ Logs(p, <<Line("error", "Error")>>)
        /\ Goto(p, "newManager")
        /\ UNCHANGED lock
  /\ UNCHANGED <<watchNamespace, mgrOptions, mgr, crMetrics, service>>
  /\ Frame

\* main, lines 83-89: leader.Become returns nil once p holds the lock, or an
\* error; while another process holds the lock it does not return.
BecomeLeader(p) ==
  /\ p \in procs
  /\ pc[p] = "become"
  /\ \/ /\ LockFree
        /\ Acquire(p)
        /\ Calls(p, <<Call("leader.Become", "nil")>>)
        /\ Logs(p, <<>>)
        /\ Goto(p, "newManager")
     \/ /\ Calls(p, <<Call("leader.Become", "error")>>)
        /\ Logs(p, <<Line("error", "Error")>>)
        /\ osExit(p, 1)
  /\ UNCHANGED <<watchNamespace, mgrOptions, mgr, crMetrics, service>>
  /\ Frame

\* Variant of NewManager: the error of manager.New is logged and main goes on.
NewManagerContinue(p) ==
  /\ p \in procs
  /\ pc[p] = "newManager"
  /\ mgrOptions' = [mgrOptions EXCEPT ![p] = ManagerOptions(watchNamespace[p])]
  /\ \E err \in {"nil", "error"} :
       LET multi == IF Contains(watchNamespace[p], Comma)
                    THEN <<Line("info", "manager set up with multiple namespaces")>>
                    ELSE <<>> IN
         /\ Calls(p, <<Call("manager.New", err)>>)
         /\ IF err # "nil"
            THEN /\ Logs(p, multi \o <<Line("error", "Error")>>)
                 /\ UNCHANGED mgr
            ELSE /\ Logs(p, multi)
                 /\ mgr' = [mgr EXCEPT ![p].constructed = TRUE]
  /\ Goto(p, "addToScheme")
  /\ UNCHANGED <<lock, watchNamespace, crMetrics, service>>
  /\ Frame

\* main, lines 91-110: the options and manager.New.
NewManager(p) ==
  /\ p \in procs
  /\ pc[p] = "newManager"
  /\ mgrOptions' = [mgrOptions EXCEPT ![p] = ManagerOptions(watchNamespace[p])]
  /\ \E err \in {"nil", "error"} :
       LET multi == IF Contains(watchNamespace[p], Comma)
                    THEN <<Line("info", "manager set up with multiple namespaces")>>
                    ELSE <<>> IN
         /\ Calls(p, <<Call("manager.New", err)>>)
         /\ IF err # "nil"
            THEN /\ Logs(p, multi \o <<Line("error", "Error")>>)
                 /\ osExit(p, 1)
                 /\ UNCHANGED mgr
            ELSE /\ Logs(p, multi)
                 /\ mgr' = [mgr EXCEPT ![p].constructed = TRUE]
                 /\ Goto(p, "addToScheme")
                 /\ UNCHANGED lock
  /\ UNCHANGED <<watchNamespace, crMetrics, service>>
  /\ Frame

\* Variant of AddToScheme: the error is logged and main goes on.
AddToSchemeContinue(p) ==
  /\ p \in procs
  /\ pc[p] = "addToScheme"
  /\ \E err \in {"nil", "error"} :
       /\ Calls(p, <<Call("apis.AddToScheme", err)>>)
       /\ IF err # "nil"
          THEN /\ Logs(p, <<Line("info", "Registering Components."),
                            Line("error", "Error")>>)
               /\ UNCHANGED mgr
          ELSE /\ Logs(p, <<Line("info", "Registering Components.")>>)
               /\ mgr' = [mgr EXCEPT ![p].scheme = TRUE]
  /\ Goto(p, "addToManager")
  /\ UNCHANGED <<lock, watchNamespace, mgrOptions, crMetrics, service>>
  /\ Frame

\* main, lines 112-118: apis.AddToScheme.
AddToScheme(p) ==
  /\ p \in procs
  /\ pc[p] = "addToScheme"
  /\ \E err \in {"nil", "error"} :
       /\ Calls(p, <<Call("apis.AddToScheme", err)>>)
       /\ IF err # "nil"
          THEN /\ Logs(p, <<Line("info", "Registering Components."),
                            Line("error", "Error")>>)
               /\ osExit(p, 1)
               /\ UNCHANGED mgr
          ELSE /\ Logs(p, <<Line("info", "Registering Components.")>>)
               /\ mgr' = [mgr EXCEPT ![p].scheme = TRUE]
               /\ Goto(p, "addToManager")
               /\ UNCHANGED lock
  /\ UNCHANGED <<watchNamespace, mgrOptions, crMetrics, service>>
  /\ Frame

\* Variant of AddToManager: mgr.Start comes right after the registration,
\* ahead of the metrics calls.
AddToManagerThenStart(p) ==
  /\ p \in procs
  /\ pc[p] = "addToManager"
  /\ \E err \in {"nil", "error"} :
       /\ Calls(p, <<Call("controller.AddToManager", err)>>)
       /\ IF err # "nil"
          THEN /\ Logs(p, <<Line("error", "Error")>>)
               /\ osExit(p, 1)
               /\ UNCHANGED mgr
          ELSE /\ Logs(p, <<>>)
               /\ mgr' = [mgr EXCEPT ![p].controllers = TRUE]
               /\ Goto(p, "start")
               /\ UNCHANGED lock
  /\ UNCHANGED <<watchNamespace, mgrOptions, crMetrics, service>>
  /\ Frame

\* main, lines 120-124: controller.AddToManager.
AddToManager(p) ==
  /\ p \in procs
  /\ pc[p] = "addToManager"
  /\ \E err \in {"nil", "error"} :
       /\ Calls(p, <<Call("controller.AddToManager", err)>>)
       /\ IF err # "nil"
          THEN /\ Logs(p, <<Line("error", "Error")>>)
               /\ osExit(p, 1)
               /\ UNCHANGED mgr
          ELSE /\ Logs(p, <<>>)
               /\ mgr' = [mgr EXCEPT ![p].controllers = TRUE]
               /\ Goto(p, "serveCRMetrics")
               /\ UNCHANGED lock
  /\ UNCHANGED <<watchNamespace, mgrOptions, crMetrics, service>>
  /\ Frame

\* The namespace k8sutil.GetOperatorNamespace returns when it succeeds.
OperatorNamespace == "operator-ns"

\* Variant of serveCRMetrics: the listener is handed the descriptors of the
\* scheme as they are.
serveCRMetricsUnfiltered ==
  {[err |-> "gvkError",
    calls |-> <<Call("k8sutil.GetGVKsFromAddToScheme", "gvkError")>>,
    listener |-> NoListener],
   [err |-> "namespaceError",
    calls |-> <<Call("k8sutil.GetGVKsFromAddToScheme", "nil"),
                Call("k8sutil.GetOperatorNamespace", "namespaceError")>>,
    listener |-> NoListener]}
  \cup
  {LET ns == <<OperatorNamespace>> IN
     [err |-> e,
      calls |-> <<Call("k8sutil.GetGVKsFromAddToScheme", "nil"),
                  Call("k8sutil.GetOperatorNamespace", "nil"),
                  Call("kubemetrics.GenerateAndServeCRMetrics", e)>>,
      listener |-> [started |-> (e = "nil"), gvks |-> schemeGVKs, ns |-> ns]]
     : e \in {"nil", "serveError"}}

\* serveCRMetrics, lines 166-194: every way the function can run, each with
\* the calls it makes, the error it returns and the listener it was handed.
serveCRMetrics ==
  {[err |-> "gvkError",
    calls |-> <<Call("k8sutil.GetGVKsFromAddToScheme", "gvkError")>>,
    listener |-> NoListener],
   [err |-> "namespaceError",
    calls |-> <<Call("k8sutil.GetGVKsFromAddToScheme", "nil"),
                Call("k8sutil.GetOperatorNamespace", "namespaceError")>>,
    listener |-> NoListener]}
  \cup
  {LET filteredGVK == filterGKVsFromAddToScheme(schemeGVKs)
       ns == <<OperatorNamespace>> IN
     [err |-> e,
      calls |-> <<Call("k8sutil.GetGVKsFromAddToScheme", "nil"),
                  Call("k8sutil.GetOperatorNamespace", "nil"),
                  Call("kubemetrics.GenerateAndServeCRMetrics", e)>>,
      listener |-> [started |-> (e = "nil"), gvks |-> filteredGVK, ns |-> ns]]
     : e \in {"nil", "serveError"}}

\* Variant of ServeCRMetrics: the error ends the process.
ServeCRMetricsFatal(p) ==
  /\ p \in procs
  /\ pc[p] = "serveCRMetrics"
  /\ \E r \in serveCRMetrics :
       /\ Calls(p, r.calls \o <<Call("serveCRMetrics", r.err)>>)
       /\ crMetrics' = [crMetrics EXCEPT ![p] = r.listener]
       /\ IF r.err # "nil"
          THEN /\ Logs(p, <<Line("error",
                      "Could not generate and serve custom resource metrics.")>>)
               /\ osExit(p, 1)
          ELSE /\ Logs(p, <<>>)
               /\ Goto(p, "createMetricsService")
               /\ UNCHANGED lock
  /\ UNCHANGED <<watchNamespace, mgrOptions, mgr, service>>
  /\ Frame

\* main, lines 126-128: serveCRMetrics(cfg).
ServeCRMetrics(p) ==
  /\ p \in procs
  /\ pc[p] = "serveCRMetrics"
  /\ \E r \in serveCRMetrics :
       /\ Calls(p, r.calls \o <<Call("serveCRMetrics", r.err)>>)
       /\ crMetrics' = [crMetrics EXCEPT ![p] = r.listener]
       /\ IF r.err # "nil"
          THEN Logs(p, <<Line("error",
                 "Could not generate and serve custom resource metrics.")>>)
          ELSE Logs(p, <<>>)
  /\ Goto(p, "createMetricsService")
  /\ UNCHANGED <<lock, watchNamespace, mgrOptions, mgr, service>>
  /\ Frame

\* Variant of CreateMetricsService: without a Service no ServiceMonitor is
\* asked for.
CreateMetricsServiceSkipsMonitors(p) ==
  /\ p \in procs
  /\ pc[p] = "createMetricsService"
  /\ \E err \in {"nil", "error"} :
       /\ Calls(p, <<Call("metrics.CreateMetricsService", err)>>)
       /\ IF err # "nil"
          THEN /\ Logs(p, <<Line("error", "Could not create metrics Service.")>>)
               /\ service' = [service EXCEPT ![p] = "nil"]
               /\ Goto(p, "start")
          ELSE /\ Logs(p, <<>>)
               /\ service' = [service EXCEPT ![p] = "service"]
               /\ Goto(p, "createServiceMonitors")
  /\ UNCHANGED <<lock, watchNamespace, mgrOptions, mgr, crMetrics>>
  /\ Frame

\* main, lines 130-139: metrics.CreateMetricsService.
CreateMetricsService(p) ==
  /\ p \in procs
  /\ pc[p] = "createMetricsService"
  /\ \E err \in {"nil", "error"} :
       /\ Calls(p, <<Call("metrics.CreateMetricsService", err)>>)
       /\ IF err # "nil"
          THEN /\ Logs(p, <<Line("error", "Could not create metrics Service.")>>)
               /\ service' = [service EXCEPT ![p] = "nil"]
          ELSE /\ Logs(p, <<>>)
               /\ service' = [service EXCEPT ![p] = "service"]
  /\ Goto(p, "createServiceMonitors")
  /\ UNCHANGED <<lock, watchNamespace, mgrOptions, mgr, crMetrics>>
  /\ Frame

\* main, lines 141-153: metrics.CreateServiceMonitors; the error of
\* k8sutil.GetOperatorNamespace is discarded.
CreateServiceMonitors(p) ==
  /\ p \in procs
  /\ pc[p] = "createServiceMonitors"
  /\ \E err \in {"nil", "error", "ErrServiceMonitorNotPresent"} :
       /\ Calls(p, <<Call("k8sutil.GetOperatorNamespace", "discarded"),
                     Call("metrics.CreateServiceMonitors", err)>>)
       /\ Logs(p, (IF err # "nil"
                   THEN <<Line("error", "Could not create ServiceMonitor object.")>>
                   ELSE <<>>)
                  \o
                  (IF err = "ErrServiceMonitorNotPresent"
                   THEN <<Line("error", "Install prometheus-operator in your cluster to create ServiceMonitor objects.")>>
                   ELSE <<>>))
  /\ Goto(p, "start")
  /\ UNCHANGED <<lock, watchNamespace, mgrOptions, mgr, crMetrics, service>>
  /\ Frame

\* Variant of StartManager: the lock is given up before mgr.Start.
StartManagerReleases(p) ==
  /\ p \in procs
  /\ pc[p] = "start"
  /\ Logs(p, <<Line("info", "Starting the Cmd.")>>)
  /\ mgr' = [mgr EXCEPT ![p].started = TRUE]
  /\ Goto(p, "running")
  /\ Release(p)
  /\ UNCHANGED <<watchNamespace, mgrOptions, crMetrics, service, trace>>
  /\ Frame

\* main, lines 155-158: mgr.Start is called and blocks.
StartManager(p) ==
  /\ p \in procs
  /\ pc[p] = "start"
  /\ Logs(p, <<Line("info", "Starting the Cmd.")>>)
  /\ mgr' = [mgr EXCEPT ![p].started = TRUE]
  /\ Goto(p, "running")
  /\ UNCHANGED <<lock, watchNamespace, mgrOptions, crMetrics, service, trace>>
  /\ Frame

\* Variant of ManagerReturns: the error is logged and main returns.
ManagerReturnsNoExit(p) ==
  /\ p \in procs
  /\ pc[p] = "running"
  /\ \E err \in {"nil", "error"} :
       /\ Calls(p, <<Call("mgr.Start", err)>>)
       /\ IF err # "nil"
          THEN /\ Logs(p, <<Line("error", "Manager exited non-zero.")>>)
               /\ osExit(p, 0)
          ELSE /\ Logs(p, <<>>)
               /\ osExit(p, 0)
  /\ UNCHANGED <<watchNamespace, mgrOptions, mgr, crMetrics, service>>
  /\ Frame

\* main, lines 158-162: mgr.Start returns, nil after a termination signal or
\* an error; main exits 1 on the error and returns on nil.
ManagerReturns(p) ==
  /\ p \in procs
  /\ pc[p] = "running"
  /\ \E err \in {"nil", "error"} :
       /\ Calls(p, <<Call("mgr.Start", err)>>)
       /\ IF err # "nil"
          THEN /\ Logs(p, <<Line("error", "Manager exited non-zero.")>>)
               /\ osExit(p, 1)
          ELSE /\ Logs(p, <<>>)
               /\ osExit(p, 0)
  /\ UNCHANGED <<watchNamespace, mgrOptions, mgr, crMetrics, service>>
  /\ Frame

(***************************************************************************)
(* The specifications.                                                     *)
(***************************************************************************)
\* The descriptors of the scheme and the watch-spec registry of the processes.
SchemeGVKs == <<GVK("a", "v1", "Foo"), GVK("b", "v1", "Bar"), GVK("a", "v1", "Baz")>>
Registry == <<GVK("a", matchAnyValue, "Foo"), GVK(matchAnyValue, matchAnyValue, "Baz")>>

\* The characters of a watch namespace, and the values the replicas are run on.
NsChars == {"a", "b", Comma}
ReplicaNamespaces == {<<"a", Comma, "b">>}

WatchNamespaceEnv(values) ==
  {[set |-> FALSE, value |-> <<>>]} \cup {[set |-> TRUE, value |-> v] : v \in values}

InitEnv(values) ==
  /\ WatchedResources = Registry
  /\ schemeGVKs = SchemeGVKs
  /\ envWatchNamespace \in WatchNamespaceEnv(values)

Step(p) ==
  \/ ReadWatchNamespace(p)
  \/ GetConfig(p)
  \/ BecomeLeader(p)
  \/ NewManager(p)
  \/ AddToScheme(p)
  \/ AddToManager(p)
  \/ ServeCRMetrics(p)
  \/ CreateMetricsService(p)
  \/ CreateServiceMonitors(p)
  \/ StartManager(p)
  \/ ManagerReturns(p)

Next == \E p \in Procs : Step(p)

\* NumProcs replicas of the process, started with the same environment.
Init ==
  /\ InitFilterIdle
  /\ InitEnv(ReplicaNamespaces)
  /\ InitProcs(Procs)

Spec == Init /\ [][Next]_vars

\* One process, on every watch namespace of at most MaxNsLen characters.
InitSingle ==
  /\ InitFilterIdle
  /\ InitEnv(SeqsUpTo(NsChars, MaxNsLen))
  /\ InitProcs({1})

SpecSingle == InitSingle /\ [][Next]_vars

\* The filter alone, on every descriptor list and every registry.
InitFilter ==
  /\ gvks \in SeqsUpTo(Descriptors, MaxGVKs)
  /\ WatchedResources \in SeqsUpTo(WatchSpecs, MaxSpecs)
  /\ ownGVKs = <<>>
  /\ filterCalls = 0
  /\ schemeGVKs = <<>>
  /\ envWatchNamespace = [set |-> FALSE, value |-> <<>>]
  /\ InitProcs({})

\* Variant of CallFilter: a spec that matched a descriptor is taken out of
\* the registry.
MatchedNothing(s) == \A i \in DOMAIN gvks : ~SpecMatches(s, gvks[i])

CallFilterConsumesRegistry ==
  /\ filterCalls < MaxCalls
  /\ ownGVKs' = filterGKVsFromAddToScheme(gvks)
  /\ filterCalls' = filterCalls + 1
  /\ WatchedResources' = SelectSeq(WatchedResources, MatchedNothing)
  /\ UNCHANGED <<gvks, schemeGVKs, envWatchNamespace>>
  /\ UNCHANGED procVars

\* A call filterGKVsFromAddToScheme(gvks); the caller keeps the result.
CallFilter ==
  /\ filterCalls < MaxCalls
  /\ ownGVKs' = filterGKVsFromAddToScheme(gvks)
  /\ filterCalls' = filterCalls + 1
  /\ UNCHANGED <<gvks, WatchedResources, schemeGVKs, envWatchNamespace>>
  /\ UNCHANGED procVars

NextFilter == CallFilter

SpecFilter == InitFilter /\ [][NextFilter]_vars

\* The runs of the filter alone together with the runs of one process, in
\* which serveCRMetrics calls the filter.
InitPurity == InitFilter \/ InitSingle

NextPurity ==
  \/ procs = {} /\ NextFilter
  \/ Next

SpecPurity == InitPurity /\ [][NextPurity]_vars

(***************************************************************************)
(* Properties of the filter, checked under SpecFilter.                     *)
(***************************************************************************)
Range(seq) == {seq[i] : i \in DOMAIN seq}

AllWildcard(s) ==
  s.Group = matchAnyValue /\ s.Version = matchAnyValue /\ s.Kind = matchAnyValue

\* The matching rule as the specification words it: the spec is not
\* all-wildcard and each of its fields is the wildcard or the descriptor's.
RuleMatches(d, s) ==
  /\ ~AllWildcard(s)
  /\ s.Group = matchAnyValue \/ s.Group = d.Group
  /\ s.Version = matchAnyValue \/ s.Version = d.Version
  /\ s.Kind = matchAnyValue \/ s.Kind = d.Kind

\* C1: a descriptor occurs in the result of the filter iff it occurs in the
\* input list and matches, under the rule, at least one spec of the registry;
\* in particular the result holds no descriptor that is not in the input.
C1_FilterMembership ==
  filterCalls > 0 =>
    /\ Range(ownGVKs) \subseteq Range(gvks)
    /\ \A d \in Descriptors :
         d \in Range(ownGVKs) <=>
           /\ d \in Range(gvks)
           /\ \E s \in Range(WatchedResources) : RuleMatches(d, s)

\* C1: a call on a registry with a partly wildcarded spec that keeps one
\* descriptor of the list and drops another.
C1_Witness ==
  /\ filterCalls > 0
  /\ GVK("a", matchAnyValue, "Foo") \in Range(WatchedResources)
  /\ gvks = <<GVK("a", "v2", "Foo"), GVK("b", "v2", "Foo")>>
  /\ ownGVKs = <<GVK("a", "v2", "Foo")>>

NotAllWildcard(s) == ~AllWildcard(s)

\* C2: an all-wildcard spec contributes nothing to the result: the filter
\* returns what it returns on the registry with the all-wildcard specs
\* taken out, and the empty list when the registry holds no other spec.
C2_AllWildcardMatchesNothing ==
  filterCalls > 0 =>
    /\ ownGVKs = OuterLoop(gvks, SelectSeq(WatchedResources, NotAllWildcard), 1, <<>>)
    /\ (\A s \in Range(WatchedResources) : AllWildcard(s)) => ownGVKs = <<>>

\* C2: a call on a registry that lists the all-wildcard spec beside a spec
\* that matches a descriptor of the list.
C2_Witness ==
  /\ filterCalls > 0
  /\ Len(WatchedResources) = 2
  /\ \E j \in DOMAIN WatchedResources : AllWildcard(WatchedResources[j])
  /\ Len(gvks) = 2
  /\ Len(ownGVKs) = 1

\* n copies of d.
RECURSIVE Copies(_, _)
Copies(d, n) == IF n = 0 THEN <<>> ELSE <<d>> \o Copies(d, n - 1)

\* The number of specs of the registry that d matches under the rule.
MatchCount(d) ==
  Cardinality({j \in DOMAIN WatchedResources : RuleMatches(d, WatchedResources[j])})

\* The input list from position i on, each element repeated MatchCount times.
RECURSIVE Expanded(_)
Expanded(i) ==
  IF i > Len(gvks) THEN <<>>
  ELSE Copies(gvks[i], MatchCount(gvks[i])) \o Expanded(i + 1)

\* C3: the result is the input list in its order, each element repeated as
\* many times as the number of specs it matches: no reordering and no
\* deduplication.
C3_OrderAndMultiplicity ==
  filterCalls > 0 => ownGVKs = Expanded(1)

\* C3: a call whose list holds the same descriptor twice, each occurrence
\* matching two specs.
C3_Witness ==
  /\ filterCalls > 0
  /\ Len(gvks) = 2
  /\ gvks[1] = gvks[2]
  /\ MatchCount(gvks[1]) = 2
  /\ Len(ownGVKs) = 4

(***************************************************************************)
(* Properties of the startup sequence.                                     *)
(***************************************************************************)
Last(seq) == seq[Len(seq)]

\* Process p has made the call `name` and it returned `err`.
Returned(p, name, err) == \E i \in DOMAIN trace[p] : trace[p][i] = Call(name, err)

\* How many times p has made the call `name`.
Count(p, name) == Cardinality({i \in DOMAIN trace[p] : trace[p][i].call = name})

\* Process p has made the calls n1 and n2, both returned nil, n1 before n2.
NilBefore(p, n1, n2) ==
  \E i, j \in DOMAIN trace[p] :
    i < j /\ trace[p][i] = Call(n1, "nil") /\ trace[p][j] = Call(n2, "nil")

\* The positions of main after leader.Become has returned nil.
PastLeadership ==
  {"newManager", "addToScheme", "addToManager", "serveCRMetrics",
   "createMetricsService", "createServiceMonitors", "start", "running"}

\* C4: a process whose leader.Become failed has logged an error as its last
\* line, has exited with status 1 and has never called manager.New; and a
\* process calls leader.Become at most once, exactly once when it got past it.
C4_LeaderFailureExits ==
  \A p \in Procs :
    /\ Count(p, "leader.Become") <= 1
    /\ pc[p] \in PastLeadership => Count(p, "leader.Become") = 1
    /\ Returned(p, "leader.Become", "error") =>
         /\ pc[p] = "exited"
         /\ exitCode[p] = {1}
         /\ Last(trace[p]).call = "leader.Become"
         /\ Last(log[p]).level = "error"
         /\ Count(p, "manager.New") = 0
         /\ mgr[p] = NoManager

\* C4: a process whose leader.Become failed, beside one that holds the lock.
C4_Witness ==
  \E p, q \in Procs :
    /\ Returned(p, "leader.Become", "error")
    /\ pc[p] = "exited"
    /\ q \in lock

\* C5: at most one process at a time is past leader.Become, and a process
\* past it (building, registering, publishing metrics or running the
\* manager) holds the lock.
C5_SingleLeader ==
  /\ Cardinality({p \in Procs : pc[p] \in PastLeadership}) <= 1
  /\ \A p \in Procs : pc[p] \in PastLeadership => p \in lock
  /\ \A p \in Procs : mgr[p].constructed /\ pc[p] # "exited" => p \in lock

\* C5: one process runs its manager while another waits in leader.Become.
C5_Witness ==
  \E p, q \in Procs :
    /\ p # q
    /\ pc[p] = "running"
    /\ mgr[p].started
    /\ pc[q] = "become"
    /\ ~ENABLED (LockFree /\ Acquire(q))

\* C6: a started manager was constructed, then had the scheme registered,
\* then the controllers, each successfully; after a failed scheme
\* registration controller.AddToManager is never called; and after either
\* registration failed the process has exited with status 1, its manager
\* never started.
C6_StartAfterRegistration ==
  \A p \in Procs :
    /\ mgr[p].started =>
         /\ NilBefore(p, "manager.New", "apis.AddToScheme")
         /\ NilBefore(p, "apis.AddToScheme", "controller.AddToManager")
         /\ mgr[p].constructed /\ mgr[p].scheme /\ mgr[p].controllers
    /\ Returned(p, "apis.AddToScheme", "error") =>
         Count(p, "controller.AddToManager") = 0
    /\ (\/ Returned(p, "apis.AddToScheme", "error")
        \/ Returned(p, "controller.AddToManager", "error")) =>
         /\ pc[p] = "exited"
         /\ exitCode[p] = {1}
         /\ ~mgr[p].started
         /\ Count(p, "mgr.Start") = 0

\* C6: a process whose manager is started.
C6_Witness ==
  \E p \in Procs :
    /\ pc[p] = "running"
    /\ mgr[p].started
    /\ Count(p, "controller.AddToManager") = 1

\* The calls of the Metrics Publisher, and those of them p has seen fail.
MetricsCalls ==
  {"serveCRMetrics", "metrics.CreateMetricsService", "metrics.CreateServiceMonitors"}

FailedMetricsCalls(p) ==
  {trace[p][i].call : i \in {j \in DOMAIN trace[p] :
                               /\ trace[p][j].call \in MetricsCalls
                               /\ trace[p][j].err # "nil"}}

\* C7: a process that has seen a call of the Metrics Publisher fail has not
\* exited because of it: it is at a later step of main that it can take, or
\* its manager is started, and if it has exited then mgr.Start has returned
\* and the exit status is the one that return decides, 0 for nil and 1 for an
\* error, as without the failure.
C7_MetricsFailuresNotFatal ==
  \A p \in Procs :
    FailedMetricsCalls(p) # {} =>
      /\ pc[p] \in {"createMetricsService", "createServiceMonitors", "start",
                    "running", "exited"}
      /\ pc[p] \in {"createMetricsService", "createServiceMonitors", "start"} =>
           ENABLED Step(p)
      /\ pc[p] \in {"running", "exited"} => mgr[p].started
      /\ pc[p] = "exited" =>
           /\ Last(trace[p]).call = "mgr.Start"
           /\ exitCode[p] = {IF Last(trace[p]).err = "nil" THEN 0 ELSE 1}

\* C7: a process that saw all three calls of the Metrics Publisher fail,
\* started its manager and ended with status 0.
C7_Witness ==
  \E p \in Procs :
    /\ FailedMetricsCalls(p) = MetricsCalls
    /\ Returned(p, "metrics.CreateServiceMonitors", "ErrServiceMonitorNotPresent")
    /\ mgr[p].started
    /\ exitCode[p] = {0}

\* C8: the options handed to manager.New. When the watch namespace holds a
\* comma the cache is the multi-namespace builder over the pieces between the
\* commas (joined by commas they give the watch namespace back and none holds
\* a comma, so order, duplicates, blanks and empty pieces are kept) and the
\* Namespace option is empty; otherwise NewCache is nil and the Namespace
\* option is the watch namespace. Never both a Namespace and a multi cache.
RECURSIVE Joined(_)
Joined(pieces) ==
  IF Len(pieces) = 0 THEN <<>>
  ELSE IF Len(pieces) = 1 THEN pieces[1]
  ELSE pieces[1] \o <<Comma>> \o Joined(Tail(pieces))

C8_ManagerOptions ==
  \A p \in Procs :
    Count(p, "manager.New") > 0 =>
      LET raw == watchNamespace[p]
          o == mgrOptions[p] IN
        /\ envWatchNamespace.set => raw = envWatchNamespace.value
        /\ IF Comma \in Range(raw)
           THEN /\ o.NewCache.multi
                /\ Len(o.NewCache.namespaces) >= 2
                /\ Joined(o.NewCache.namespaces) = raw
                /\ \A n \in Range(o.NewCache.namespaces) : Comma \notin Range(n)
                /\ o.Namespace = <<>>
           ELSE /\ o.NewCache = NilCache
                /\ o.Namespace = raw
        /\ ~(o.Namespace # <<>> /\ o.NewCache.multi)

\* C8: manager.New called for the watch namespace "a,,a": a repeated name
\* and an empty piece.
C8_Witness ==
  \E p \in Procs :
    /\ Count(p, "manager.New") > 0
    /\ watchNamespace[p] = <<"a", Comma, Comma, "a">>
    /\ mgrOptions[p].NewCache.namespaces = <<(<<"a">>), <<>>, (<<"a">>)>>

\* The calls whose failure ends the process.
FatalCalls ==
  {"config.GetConfig", "leader.Become", "manager.New", "apis.AddToScheme",
   "controller.AddToManager", "mgr.Start"}

FatalFailure(p) ==
  \E i \in DOMAIN trace[p] : trace[p][i].call \in FatalCalls /\ trace[p][i].err # "nil"

\* C9: a process has exited with status 1 exactly when one of the fatal calls
\* has failed, and with status 0 exactly when mgr.Start, called after a
\* successful startup, has returned nil; a process that has not exited has no
\* status, and nothing else a step returns changes it.
C9_ExitStatus ==
  \A p \in Procs :
    /\ exitCode[p] \subseteq {0, 1}
    /\ (pc[p] = "exited") <=> (exitCode[p] # {})
    /\ (exitCode[p] = {1}) <=> FatalFailure(p)
    /\ (exitCode[p] = {0}) <=> Returned(p, "mgr.Start", "nil")
    /\ Returned(p, "mgr.Start", "nil") =>
         mgr[p].started /\ NilBefore(p, "controller.AddToManager", "mgr.Start")

\* C9: a process that ended with status 0, after mgr.Start returned nil,
\* although it could not read the watch namespace or publish metrics.
C9_Witness ==
  \E p \in Procs :
    /\ exitCode[p] = {0}
    /\ Last(trace[p]) = Call("mgr.Start", "nil")
    /\ Returned(p, "k8sutil.GetWatchNamespace", "error")
    /\ FailedMetricsCalls(p) = MetricsCalls

WatchNamespaceWarning == "Failed to get watch watchNamespace"

\* C10: a process that could not read the watch namespace has logged that as
\* a warning and as nothing else, has logged no error and has not exited
\* when it comes to config.GetConfig, which it can call, and hands manager.New
\* options with an empty Namespace and no multi-namespace cache.
C10_WatchNamespaceFailure ==
  \A p \in Procs :
    Returned(p, "k8sutil.GetWatchNamespace", "error") =>
      /\ Line("warning", WatchNamespaceWarning) \in Range(log[p])
      /\ \A l \in Range(log[p]) : l.msg = WatchNamespaceWarning => l.level = "warning"
      /\ Len(trace[p]) = 1 =>
           /\ pc[p] = "getConfig"
           /\ exitCode[p] = {}
           /\ \A l \in Range(log[p]) : l.level # "error"
           /\ ENABLED GetConfig(p)
      /\ Count(p, "manager.New") > 0 =>
           /\ mgrOptions[p].Namespace = <<>>
           /\ mgrOptions[p].NewCache = NilCache

\* C10: a process that could not read the watch namespace and runs its
\* manager.
C10_Witness ==
  \E p \in Procs :
    /\ Returned(p, "k8sutil.GetWatchNamespace", "error")
    /\ pc[p] = "running"
    /\ mgr[p].started

(***************************************************************************)
(* Properties of the log levels.                                           *)
(***************************************************************************)
ServiceMonitorMessages ==
  {"Could not create ServiceMonitor object.",
   "Install prometheus-operator in your cluster to create ServiceMonitor objects."}

\* The lines p has logged about metrics.CreateServiceMonitors.
ServiceMonitorLines(p) == {l \in Range(log[p]) : l.msg \in ServiceMonitorMessages}

DegradedMessages ==
  ServiceMonitorMessages \cup
  {WatchNamespaceWarning,
   "Could not generate and serve custom resource metrics.",
   "Could not create metrics Service."}

\* The messages logged for the failures that end the process.
FatalMessages == {"Error", "Manager exited non-zero."}

\* The number of positions of p's log that hold a line with a message of M.
LinesWith(p, M) == Cardinality({i \in DOMAIN log[p] : log[p][i].msg \in M})

\* C12: every line logged for a failure main goes on after is a warning, a
\* failure main goes on after is logged, and a process that met a fatal
\* failure has logged exactly one line for it, its last, and has exited with
\* status 1.
C12_LogLevels ==
  \A p \in Procs :
    /\ \A l \in Range(log[p]) : l.msg \in DegradedMessages => l.level = "warning"
    /\ (FailedMetricsCalls(p) # {} \/ Returned(p, "k8sutil.GetWatchNamespace", "error")) =>
         LinesWith(p, DegradedMessages) > 0
    /\ FatalFailure(p) =>
         /\ LinesWith(p, FatalMessages) = 1
         /\ Last(log[p]).msg \in FatalMessages
         /\ exitCode[p] = {1}

(***************************************************************************)
(* Further properties of the filter, checked under SpecFilter.             *)
(***************************************************************************)
\* C13: the filter returns the empty list when the registry is empty,
\* whatever the descriptor list, and when the descriptor list is empty,
\* whatever the registry.
C13_EmptyInputEmptyResult ==
  filterCalls > 0 =>
    /\ WatchedResources = <<>> => ownGVKs = <<>>
    /\ gvks = <<>> => ownGVKs = <<>>

\* C13: a call on two descriptors with an empty registry.
C13_Witness ==
  /\ filterCalls > 0
  /\ WatchedResources = <<>>
  /\ Len(gvks) = 2
  /\ ownGVKs = <<>>

(***************************************************************************)
(* Further properties of the startup sequence.                             *)
(***************************************************************************)
\* The calls of the startup whose failure ends the process.
StartupFatalCalls ==
  {"config.GetConfig", "leader.Become", "manager.New", "apis.AddToScheme",
   "controller.AddToManager"}

\* The calls main makes after manager.New.
AfterNewManager ==
  {"apis.AddToScheme", "controller.AddToManager", "serveCRMetrics",
   "k8sutil.GetGVKsFromAddToScheme", "k8sutil.GetOperatorNamespace",
   "kubemetrics.GenerateAndServeCRMetrics", "metrics.CreateMetricsService",
   "metrics.CreateServiceMonitors", "mgr.Start"}

\* C14: a failed fatal call of the startup is the last call its process
\* makes, the process has exited with status 1, its manager not started, and
\* no fatal call is made twice; after a failed config.GetConfig there is no
\* leader.Become, after a failed manager.New no registration, no metrics call
\* and no mgr.Start.
C14_FailFast ==
  \A p \in Procs :
    /\ \A i \in DOMAIN trace[p] :
         (trace[p][i].call \in StartupFatalCalls /\ trace[p][i].err # "nil") =>
           /\ i = Len(trace[p])
           /\ pc[p] = "exited"
           /\ exitCode[p] = {1}
           /\ ~mgr[p].started
           /\ ~ENABLED Step(p)
    /\ \A c \in StartupFatalCalls : Count(p, c) <= 1
    /\ Returned(p, "config.GetConfig", "error") =>
         /\ Count(p, "leader.Become") = 0
         /\ p \notin lock
    /\ Returned(p, "manager.New", "error") =>
         /\ \A c \in AfterNewManager : Count(p, c) = 0
         /\ mgr[p] = NoManager
         /\ crMetrics[p] = NoListener

\* C14: a process that became the leader and then exited on a failed
\* manager.New.
C14_Witness ==
  \E p \in Procs :
    /\ Returned(p, "leader.Become", "nil")
    /\ Last(trace[p]) = Call("manager.New", "error")
    /\ pc[p] = "exited"

\* The calls main itself makes, in the order of its text.
StepOrder ==
  <<"k8sutil.GetWatchNamespace", "config.GetConfig", "leader.Become",
    "manager.New", "apis.AddToScheme", "controller.AddToManager",
    "serveCRMetrics", "metrics.CreateMetricsService",
    "metrics.CreateServiceMonitors", "mgr.Start">>

IsStepCall(c) == c.call \in Range(StepOrder)

\* C15: the calls a process has made are, in order, the first calls of
\* StepOrder, so each step comes at most once and in the one order namespace,
\* leadership, manager build, metrics, run; a metrics call is made only after
\* controller.AddToManager returned nil, and a started manager has all three
\* metrics calls behind it.
C15_FixedOrder ==
  \A p \in Procs :
    LET steps == SelectSeq(trace[p], IsStepCall) IN
      /\ Len(steps) <= Len(StepOrder)
      /\ \A i \in DOMAIN steps : steps[i].call = StepOrder[i]
      /\ (\E c \in MetricsCalls : Count(p, c) > 0) =>
           Returned(p, "controller.AddToManager", "nil")
      /\ crMetrics[p] # NoListener => Returned(p, "controller.AddToManager", "nil")
      /\ mgr[p].started => \A c \in MetricsCalls : Count(p, c) = 1
      /\ pc[p] = "start" => \A c \in MetricsCalls : Count(p, c) = 1

\* C15: a process that has made every call of StepOrder.
C15_Witness ==
  \E p \in Procs :
    /\ Len(SelectSeq(trace[p], IsStepCall)) = Len(StepOrder)
    /\ mgr[p].started
    /\ Last(trace[p]).call = "mgr.Start"

\* C16: a process that has come back from serveCRMetrics, with an error or
\* without, makes each of the other two metrics calls once: at
\* metrics.CreateMetricsService it can make that call, whatever serveCRMetrics
\* returned; at metrics.CreateServiceMonitors it has made the former and can
\* make the latter, whatever the former returned; and past them it has made
\* all three, each exactly once.
C16_MetricsCallsIndependent ==
  \A p \in Procs :
    /\ \A c \in MetricsCalls : Count(p, c) <= 1
    /\ Count(p, "serveCRMetrics") = 1 =>
         /\ pc[p] \in {"createMetricsService", "createServiceMonitors", "start",
                       "running", "exited"}
         /\ pc[p] = "createMetricsService" =>
              /\ Count(p, "metrics.CreateMetricsService") = 0
              /\ ENABLED CreateMetricsService(p)
         /\ pc[p] = "createServiceMonitors" =>
              /\ Count(p, "metrics.CreateMetricsService") = 1
              /\ Count(p, "metrics.CreateServiceMonitors") = 0
              /\ ENABLED CreateServiceMonitors(p)
         /\ pc[p] \in {"start", "running", "exited"} =>
              \A c \in MetricsCalls : Count(p, c) = 1

\* C16: a process that called metrics.CreateServiceMonitors after both
\* serveCRMetrics and metrics.CreateMetricsService had failed.
C16_Witness ==
  \E p \in Procs :
    /\ Returned(p, "serveCRMetrics", "gvkError")
    /\ Returned(p, "metrics.CreateMetricsService", "error")
    /\ service[p] = "nil"
    /\ Count(p, "metrics.CreateServiceMonitors") = 1

(***************************************************************************)
(* The lock over the life of a process, checked under Spec.                *)
(***************************************************************************)
\* C17: a step leaves the lock with the process that holds it unless that
\* step ends the process; the lock comes to a process only by its one
\* leader.Become returning nil, and a process that holds it has called
\* leader.Become once and does not stand at that call again.
C17_TokenHeldUntilExit ==
  [][\A p \in Procs :
       /\ p \in lock => (p \in lock' \/ pc'[p] = "exited")
       /\ p \in lock => (pc[p] \in PastLeadership /\ pc'[p] # "become")
       /\ (p \notin lock /\ p \in lock') =>
            /\ pc[p] = "become"
            /\ trace'[p] = Append(trace[p], Call("leader.Become", "nil"))
            /\ Count(p, "leader.Become") = 0
       /\ (pc[p] = "exited") => (pc'[p] = "exited" /\ p \notin lock')]_vars

\* C17: a process that has held the lock from leader.Become through the
\* metrics calls into the run of its manager, beside one that held it before
\* and has exited.
C17_Witness ==
  \E p, q \in Procs :
    /\ p # q
    /\ Returned(q, "leader.Become", "nil")
    /\ pc[q] = "exited"
    /\ pc[p] = "running"
    /\ Count(p, "metrics.CreateServiceMonitors") = 1
    /\ lock = {p}

(***************************************************************************)
(* The custom-resource metrics listener, checked under SpecSingle.         *)
(***************************************************************************)
\* The descriptors of list from position i on, each repeated once per spec
\* of the registry that it matches under the rule.
RECURSIVE RuleFiltered(_, _)
RuleFiltered(list, i) ==
  IF i > Len(list) THEN <<>>
  ELSE Copies(list[i],
              Cardinality({j \in DOMAIN WatchedResources :
                             RuleMatches(list[i], WatchedResources[j])}))
       \o RuleFiltered(list, i + 1)

\* C18: a started listener was handed the descriptors of the scheme filtered
\* by the registry and the operator's namespace as its only namespace; and
\* when the enumeration of the GVKs or the lookup of the operator's namespace
\* fails, serveCRMetrics returns that error, the listener is not started and
\* kubemetrics.GenerateAndServeCRMetrics is not called.
C18_ListenerInputs ==
  \A p \in Procs :
    /\ crMetrics[p].started =>
         /\ crMetrics[p].gvks = RuleFiltered(schemeGVKs, 1)
         /\ crMetrics[p].ns = <<OperatorNamespace>>
         /\ Returned(p, "kubemetrics.GenerateAndServeCRMetrics", "nil")
         /\ Returned(p, "serveCRMetrics", "nil")
    /\ Count(p, "kubemetrics.GenerateAndServeCRMetrics") > 0 =>
         crMetrics[p].gvks = RuleFiltered(schemeGVKs, 1)
    /\ Returned(p, "k8sutil.GetGVKsFromAddToScheme", "gvkError") =>
         /\ Returned(p, "serveCRMetrics", "gvkError")
         /\ crMetrics[p] = NoListener
         /\ Count(p, "kubemetrics.GenerateAndServeCRMetrics") = 0
    /\ Returned(p, "k8sutil.GetOperatorNamespace", "namespaceError") =>
         /\ Returned(p, "serveCRMetrics", "namespaceError")
         /\ crMetrics[p] = NoListener
         /\ Count(p, "kubemetrics.GenerateAndServeCRMetrics") = 0

\* C18: a started listener whose descriptors are two of the three of the
\* scheme.
C18_Witness ==
  \E p \in Procs :
    /\ crMetrics[p].started
    /\ schemeGVKs = <<GVK("a", "v1", "Foo"), GVK("b", "v1", "Bar"), GVK("a", "v1", "Baz")>>
    /\ crMetrics[p].gvks = <<GVK("a", "v1", "Foo"), GVK("a", "v1", "Baz")>>
    /\ crMetrics[p].ns = <<"operator-ns">>

====
